---- MODULE Spec2Model ----
(***************************************************************************)
(* A model of pqbuild.py: the Builder pipeline (parse_buildspec,           *)
(* compile_qt_forms, assemble, ship, clean), the tree copier copytree and  *)
(* the excluder made by copytree_ignore, over an explicit filesystem.      *)
(*                                                                         *)
(* A file name is a sequence of one-character strings (so that glob        *)
(* patterns are matched character by character); a path string is a        *)
(* sequence of names, absolute when its first component is Slash.  The     *)
(* filesystem maps every existing absolute path to DirNode or to           *)
(* FileNode(c), a regular file of content c.                               *)
(***************************************************************************)
EXTENDS Integers, Sequences, FiniteSets, TLC

VARIABLES
    fs,         \* the filesystem: normalised absolute path -> node
    cwd,        \* the process's working directory (os.chdir)
    spec,       \* self.spec: the loaded build specification
    copytree_excluder,
                \* self.copytree_excluder: [on, patterns, abs_ignore_list]
    pc,         \* position of build(): the next phase, "done" or "failed";
                \* "recleaned" after a further call of clean()
    idx,        \* position of the running for-loop (assemble, ship)
    err,        \* the exception build() raised, "" when none
    failedAt,   \* the phase that raised, "" when none
    runs,       \* number of build() invocations started
    log,        \* what the current run did: Entry(op, src, dst) with op
                \*   "include"  an include entry with an existing source
                \*   "missing"  an include entry whose source does not exist
                \*   "put"      the single file of an include entry copied
                \*   "visit"    copytree called on directory src for dst
                \*   "skip"     copytree passed over the ignored entry src
                \*   "copy"     copytree copied the file src to dst
                \*   "ship"     the stage published to dst
    world       \* the initial scenario and snapshots taken on the way

vars == <<fs, cwd, spec, copytree_excluder, pc, idx, err, failedAt, runs, log, world>>

----------------------------------------------------------------------------
(* Bounds of the model *)

\* copytree's recursion gives up (RecursionError, or ENAMETOOLONG from the
\* operating system) once it is nested deeper than this
MaxDepth == 6
\* how many times build() is invoked in one behaviour
MaxRuns == 2
\* longest include map
MaxIncludes == 2
\* longest build.target list
MaxTargets == 2

----------------------------------------------------------------------------
(* Names and path strings *)

Slash   == <<"/">>          \* marks an absolute path string
Dot     == <<".">>
DotDot  == <<"..">>
TMP     == <<"__TMP__">>    \* the stage directory's name

nA   == <<"a">>
nB   == <<"b">>
nC   == <<"c">>
nX   == <<"x">>
nXO  == <<"x", "o">>
nT   == <<"t">>
nU   == <<"u">>
nD   == <<"d">>
nE   == <<"e">>
nK   == <<"k">>
nJ   == <<"j">>
nN   == <<"n">>
nR   == <<"r">>
nS   == <<"s">>
nM   == <<"m", ".ui">>
nMo  == <<"m", "_ui.py">>

\* os.listdir returns names in arbitrary order; the model lists them along
\* NameOrder or against it
NameOrder == <<TMP, nA, nB, nC, nX, nXO, nT, nU, nD, nE, nK, nJ, nN, nR, nS, nM, nMo>>

RECURSIVE Reverse(_)
Reverse(s) == IF s = <<>> THEN <<>> ELSE Reverse(Tail(s)) \o <<Head(s)>>

InOrder(names, rev) ==
    LET asc == SelectSeq(NameOrder, LAMBDA n : n \in names)
    IN  IF rev THEN Reverse(asc) ELSE asc

IsAbs(p) == p # <<>> /\ Head(p) = Slash

\* os.path.join(a, b): b replaces a when b is absolute
Join(a, b) == IF IsAbs(b) THEN b ELSE a \o b

\* os.path.normpath on the components: "." is dropped, ".." pops
RECURSIVE NormInto(_, _)
NormInto(acc, p) ==
    IF p = <<>> THEN acc
    ELSE IF Head(p) = Dot THEN NormInto(acc, Tail(p))
    ELSE IF Head(p) = DotDot
         THEN NormInto(IF acc = <<>> THEN acc ELSE SubSeq(acc, 1, Len(acc) - 1), Tail(p))
    ELSE NormInto(Append(acc, Head(p)), Tail(p))

\* os.path.abspath(p) in working directory wd
Abspath(wd, p) == IF IsAbs(p) THEN NormInto(<<>>, Tail(p)) ELSE NormInto(wd, p)

\* os.path.basename: the last component as written
Basename(p) == IF p = <<>> THEN <<>> ELSE p[Len(p)]

IsPrefix(p, q) == Len(p) <= Len(q) /\ SubSeq(q, 1, Len(p)) = p

----------------------------------------------------------------------------
(* The filesystem *)

DirNode == <<"dir", 0>>
FileNode(c) == <<"file", c>>

Exists(f, p) == p \in DOMAIN f
IsDir(f, p)  == p \in DOMAIN f /\ f[p] = DirNode
IsFile(f, p) == p \in DOMAIN f /\ f[p] # DirNode

Parent(p) == SubSeq(p, 1, Len(p) - 1)

\* os.listdir(p): the names of p's entries
Listdir(f, p) ==
    { q[Len(p) + 1] : q \in { q \in DOMAIN f : Len(q) = Len(p) + 1 /\ IsPrefix(p, q) } }

\* the filesystem with p set to node n
Put(f, p, n) == [q \in DOMAIN f \cup {p} |-> IF q = p THEN n ELSE f[q]]

\* shutil.rmtree(p): p and everything below it is gone
Rmtree(f, p) == [q \in { q \in DOMAIN f : ~IsPrefix(p, q) } |-> f[q]]

\* the tree below directory p, keyed by relative path
Subtree(f, p) ==
    LET below == { q \in DOMAIN f : IsPrefix(p, q) /\ q # p }
    IN  [r \in { SubSeq(q, Len(p) + 1, Len(q)) : q \in below } |-> f[p \o r]]

Ok(f)        == [fs |-> f, err |-> ""]
Raise(f, e)  == [fs |-> f, err |-> e]

\* os.mkdir(p)
Mkdir(f, p) ==
    IF Exists(f, p) THEN Raise(f, "FileExistsError")
    ELSE IF ~Exists(f, Parent(p)) THEN Raise(f, "FileNotFoundError")
    ELSE IF ~IsDir(f, Parent(p)) THEN Raise(f, "NotADirectoryError")
    ELSE Ok(Put(f, p, DirNode))

\* os.makedirs(p, exist_ok): missing ancestors are created first
RECURSIVE Makedirs(_, _, _)
Makedirs(f, p, exist_ok) ==
    IF IsDir(f, p) THEN (IF exist_ok THEN Ok(f) ELSE Raise(f, "FileExistsError"))
    ELSE IF Exists(f, p) THEN Raise(f, "FileExistsError")
    ELSE IF p = <<>> THEN Ok(f)
    ELSE LET up == Makedirs(f, Parent(p), TRUE)
         IN  IF up.err # "" THEN up ELSE Mkdir(up.fs, p)

\* a copy that leaves an existing file as it is
Copy2_keeping(f, s, d) ==
    LET to == IF IsDir(f, d) THEN Append(d, Basename(s)) ELSE d
    IN  IF ~Exists(f, s) THEN Raise(f, "FileNotFoundError")
        ELSE IF IsDir(f, s) THEN Raise(f, "IsADirectoryError")
        ELSE IF IsDir(f, to) THEN Raise(f, "IsADirectoryError")
        ELSE IF ~IsDir(f, Parent(to)) THEN Raise(f, "FileNotFoundError")
        ELSE IF Exists(f, to) THEN Ok(f)
        ELSE Ok(Put(f, to, f[s]))

\* shutil.copy2(s, d): into d when d is a directory, else onto d
Copy2(f, s, d) ==
    LET to == IF IsDir(f, d) THEN Append(d, Basename(s)) ELSE d
    IN  IF ~Exists(f, s) THEN Raise(f, "FileNotFoundError")
        ELSE IF IsDir(f, s) THEN Raise(f, "IsADirectoryError")
        ELSE IF IsDir(f, to) THEN Raise(f, "IsADirectoryError")
        ELSE IF ~IsDir(f, Parent(to)) THEN Raise(f, "FileNotFoundError")
        ELSE Ok(Put(f, to, f[s]))

\* shutil.rmtree(p)
RmtreeOp(f, p) ==
    IF ~Exists(f, p) THEN Raise(f, "FileNotFoundError")
    ELSE IF ~IsDir(f, p) THEN Raise(f, "NotADirectoryError")
    ELSE Ok(Rmtree(f, p))

----------------------------------------------------------------------------
(* The excluder: copytree_ignore and the get_ignored it returns *)

\* fnmatch of one name against one glob pattern: "*" matches any run of
\* characters, "?" any one character, anything else itself
RECURSIVE FnMatch(_, _)
FnMatch(name, pat) ==
    IF pat = <<>> THEN name = <<>>
    ELSE IF Head(pat) = "*"
         THEN FnMatch(name, Tail(pat)) \/ (name # <<>> /\ FnMatch(Tail(name), pat))
    ELSE IF Head(pat) = "?"
         THEN name # <<>> /\ FnMatch(Tail(name), Tail(pat))
    ELSE name # <<>> /\ Head(name) = Head(pat) /\ FnMatch(Tail(name), Tail(pat))

Range(s) == { s[i] : i \in DOMAIN s }

\* patterns taken as plain names
ignore_exact_names(patterns, names) == { n \in names : n \in Range(patterns) }

\* shutil.ignore_patterns(*patterns)(path, names)
get_ignored_by_pattern(patterns, names) ==
    { n \in names : \E p \in Range(patterns) : FnMatch(n, p) }

\* the ignore argument None
NoIgnore == [on |-> FALSE, patterns |-> <<>>, abs_ignore_list |-> {}]

copytree_ignore(wd, ignore_patterns, ignore_specific) ==
    [on |-> TRUE,
     patterns |-> ignore_patterns,
     abs_ignore_list |-> { Abspath(wd, item) : item \in Range(ignore_specific) }]

\* a listed path compared by its last component only
get_ignored_by_basename(ex, wd, path, names) ==
    get_ignored_by_pattern(ex.patterns, names)
        \cup { name \in names : \E p \in ex.abs_ignore_list : p # <<>> /\ p[Len(p)] = name }

\* get_ignored(path, names) of the excluder ex
get_ignored(ex, wd, path, names) ==
    get_ignored_by_pattern(ex.patterns, names)
        \cup { name \in names : Abspath(wd, Join(path, <<name>>)) \in ex.abs_ignore_list }

----------------------------------------------------------------------------
(* The tree copier *)

Entry(op, s, d) == [op |-> op, src |-> s, dst |-> d]

Res(f, e, lg) == [fs |-> f, err |-> e, log |-> lg]

\* copytree(src, dst, ignore, exist_ok) run in working directory wd; rev is
\* the order in which os.listdir happened to return the names, depth the
\* nesting of the call.  The result is the filesystem left behind, the
\* exception raised ("" when none) and the record of what was done.
RECURSIVE copytree(_, _, _, _, _, _, _, _), copytree_loop(_, _, _, _, _, _, _, _, _, _, _)
copytree(f, wd, src, dst, ignore, exist_ok, rev, depth) ==
    LET s == Abspath(wd, src)
        d == Abspath(wd, dst)
    IN  IF depth > MaxDepth THEN Res(f, "RecursionError", {})
        ELSE IF ~Exists(f, s) THEN Res(f, "FileNotFoundError", {})
        ELSE IF ~IsDir(f, s) THEN Res(f, "NotADirectoryError", {})
        ELSE LET names == Listdir(f, s)
                 mk == Makedirs(f, d, exist_ok)
                 ignored == IF ignore.on THEN get_ignored(ignore, wd, src, names) ELSE {}
             IN  IF mk.err # "" THEN Res(mk.fs, mk.err, {Entry("visit", s, d)})
                 ELSE copytree_loop(mk.fs, wd, src, dst, ignore, exist_ok, rev, depth,
                                    InOrder(names, rev), ignored, {Entry("visit", s, d)})

\* the loop "for name in names" of copytree, todo being the names left
copytree_loop(f, wd, src, dst, ignore, exist_ok, rev, depth, todo, ignored, lg) ==
    IF todo = <<>> THEN Res(f, "", lg)
    ELSE LET name == Head(todo)
             srcname == Join(src, <<name>>)
             dstname == Join(dst, <<name>>)
             s == Abspath(wd, srcname)
             d == Abspath(wd, dstname)
         IN  IF name \in ignored
             THEN copytree_loop(f, wd, src, dst, ignore, exist_ok, rev, depth,
                                Tail(todo), ignored, lg \cup {Entry("skip", s, d)})
             ELSE IF IsDir(f, s)
             THEN LET r == copytree(f, wd, srcname, dstname, ignore, exist_ok, rev, depth + 1)
                  IN  IF r.err # "" THEN Res(r.fs, r.err, lg \cup r.log)
                      ELSE copytree_loop(r.fs, wd, src, dst, ignore, exist_ok, rev, depth,
                                         Tail(todo), ignored, lg \cup r.log)
             ELSE LET c == Copy2(f, s, d)
                  IN  IF c.err # "" THEN Res(c.fs, c.err, lg)
                      ELSE copytree_loop(c.fs, wd, src, dst, ignore, exist_ok, rev, depth,
                                         Tail(todo), ignored, lg \cup {Entry("copy", s, d)})

----------------------------------------------------------------------------
(* The Builder *)

StagePath(wd) == Abspath(wd, <<TMP>>)

\* the value of self.spec before a specification is loaded
NoSpec ==
    [loaded |-> FALSE, root |-> <<>>, target |-> <<>>, target_is_list |-> TRUE,
     exclude_keys |-> {}, patterns |-> <<>>, specific |-> <<>>,
     qt |-> "none", forms |-> <<>>, has_include |-> FALSE, include |-> <<>>]

NoExcluder == NoIgnore

\* Builder.clean in working directory wd
clean(f, wd) == RmtreeOp(f, StagePath(wd))

\* a stage made without looking for a stale one
make_stage_over_stale(f, root) == Makedirs(f, StagePath(root), TRUE)

\* parse_buildspec, "make tmp dir": a stale stage is removed, a new one made
make_stage(f, root) ==
    LET stale == IF IsDir(f, StagePath(root)) THEN clean(f, root) ELSE Ok(f)
    IN  IF stale.err # "" THEN stale ELSE Mkdir(stale.fs, StagePath(root))

\* a parse_buildspec that moves to the build root and makes the stage
\* before it looks for the specification file
parse_buildspec_stage_first(f, wd, specfile, doc) ==
    LET root == Abspath(wd, doc.root)
        made == make_stage(f, root)
    IN  IF ~IsDir(f, root)
        THEN [fs |-> f, cwd |-> wd, spec |-> NoSpec, copytree_excluder |-> NoExcluder,
              err |-> "FileNotFoundError"]
        ELSE IF made.err # ""
        THEN [fs |-> made.fs, cwd |-> root, spec |-> NoSpec,
              copytree_excluder |-> NoExcluder, err |-> made.err]
        ELSE IF ~IsFile(f, Abspath(wd, specfile))
        THEN [fs |-> made.fs, cwd |-> root, spec |-> NoSpec,
              copytree_excluder |-> NoExcluder, err |-> "FileNotFoundError"]
        ELSE [fs |-> made.fs, cwd |-> root, spec |-> doc,
              copytree_excluder |->
                  copytree_ignore(root,
                      IF "patterns" \in doc.exclude_keys THEN doc.patterns ELSE <<>>,
                      IF "specific" \in doc.exclude_keys THEN doc.specific ELSE <<>>),
              err |-> ""]

\* Builder.parse_buildspec(specfile) started in working directory wd, doc
\* being what yaml.safe_load reads from the file
parse_buildspec(f, wd, specfile, doc) ==
    LET root == Abspath(wd, doc.root)
        made == make_stage(f, root)
        patterns == IF "patterns" \in doc.exclude_keys THEN doc.patterns ELSE <<>>
        specific == IF "specific" \in doc.exclude_keys THEN doc.specific ELSE <<>>
    IN  IF ~IsFile(f, Abspath(wd, specfile))
        THEN [fs |-> f, cwd |-> wd, spec |-> NoSpec, copytree_excluder |-> NoExcluder,
              err |-> "FileNotFoundError"]
        ELSE IF ~IsDir(f, root)
        THEN [fs |-> f, cwd |-> wd, spec |-> doc, copytree_excluder |-> NoExcluder,
              err |-> "FileNotFoundError"]
        ELSE IF made.err # ""
        THEN [fs |-> made.fs, cwd |-> root, spec |-> doc, copytree_excluder |-> NoExcluder,
              err |-> made.err]
        ELSE [fs |-> made.fs, cwd |-> root, spec |-> doc,
              copytree_excluder |-> copytree_ignore(root, patterns, specific), err |-> ""]

\* "%s_ui.py" % form.split(".ui")[0]: the text before the first ".ui"
RECURSIVE CutAtUi(_)
CutAtUi(name) ==
    IF name = <<>> THEN <<>>
    ELSE IF Head(name) = ".ui" THEN <<>>
    ELSE <<Head(name)>> \o CutAtUi(Tail(name))

HasUi(name) == \E i \in DOMAIN name : name[i] = ".ui"

RECURSIVE FormOut(_)
FormOut(form) ==
    IF form = <<>> THEN <<<<"_ui.py">>>>
    ELSE IF HasUi(Head(form)) THEN <<Append(CutAtUi(Head(form)), "_ui.py")>>
    ELSE IF Len(form) = 1 THEN <<Append(Head(form), "_ui.py")>>
    ELSE <<Head(form)>> \o FormOut(Tail(form))

\* Builder.compile_qt_form: the external compiler writes the output file
\* when it can read the form (os.system ignores its exit status)
compile_qt_form(f, wd, form) ==
    LET src == Abspath(wd, form)
        out == Abspath(wd, FormOut(form))
    IN  IF IsFile(f, src) /\ IsDir(f, Parent(out)) /\ ~IsDir(f, out)
        THEN Put(f, out, FileNode(100 + f[src][2]))
        ELSE f

RECURSIVE compile_each(_, _, _)
compile_each(f, wd, forms) ==
    IF forms = <<>> THEN f
    ELSE compile_each(compile_qt_form(f, wd, Head(forms)), wd, Tail(forms))

\* Builder.compile_qt_forms; uic_ok is whether the compiler's probe exits 0
compile_qt_forms(f, wd, doc, uic_ok) ==
    IF doc.qt \in {"none", "no_forms"} THEN Ok(f)
    ELSE IF doc.qt = "no_compiler" THEN Raise(f, "KeyError")
    ELSE IF uic_ok THEN Ok(compile_each(f, wd, doc.forms))
    ELSE Ok(f)

\* assemble(), the branch "if os.path.exists(source)": a directory is
\* copied by copytree, a single file into the target directory
assemble_existing(f, wd, ex, source, rel, rev) ==
    LET target == Join(<<TMP>>, rel)
        s == Abspath(wd, source)
        t == Abspath(wd, target)
        made == IF ~IsDir(f, t) THEN Mkdir(f, t) ELSE Ok(f)
        copied == Copy2(made.fs, s, t)
    IN  IF IsDir(f, s)
        THEN LET r == copytree(f, wd, source, target, ex, TRUE, rev, 1)
             IN  Res(r.fs, r.err, r.log \cup {Entry("include", s, t)})
        ELSE IF made.err # "" THEN Res(made.fs, made.err, {Entry("include", s, t)})
        ELSE Res(copied.fs, copied.err,
                 {Entry("include", s, t)}
                     \cup (IF copied.err = ""
                           THEN {Entry("put", s, Append(t, Basename(source)))}
                           ELSE {}))

\* an include entry that insists on its source
assemble_entry_strict(f, wd, ex, source, rel, rev) ==
    IF Exists(f, Abspath(wd, source))
    THEN assemble_existing(f, wd, ex, source, rel, rev)
    ELSE Res(f, "FileNotFoundError", {})

\* an include entry that asks the excluder about its source first
assemble_entry_consulting(f, wd, ex, source, rel, rev) ==
    LET s == Abspath(wd, source)
        t == Abspath(wd, Join(<<TMP>>, rel))
    IN  IF ~Exists(f, s) THEN Res(f, "", {Entry("missing", s, t)})
        ELSE IF Basename(source) \in get_ignored(ex, wd, Parent(source), {Basename(source)})
        THEN Res(f, "", {Entry("include", s, t), Entry("skip", s, t)})
        ELSE assemble_existing(f, wd, ex, source, rel, rev)

\* one pass of the loop "for source in include.keys()" of Builder.assemble
assemble_entry(f, wd, ex, source, rel, rev) ==
    IF Exists(f, Abspath(wd, source))
    THEN assemble_existing(f, wd, ex, source, rel, rev)
    ELSE Res(f, "", {Entry("missing", Abspath(wd, source),
                           Abspath(wd, Join(<<TMP>>, rel)))})

\* Builder.ship: build.target, a list or a single path made a list of one
Targets(doc) == IF doc.target_is_list THEN doc.target ELSE <<doc.target>>

\* a publication that copies onto what the destination holds
ship_to_merging(f, wd, target, rev) ==
    LET r == copytree(f, wd, <<TMP>>, target, NoIgnore, TRUE, rev, 1)
    IN  IF r.err # "" THEN Res(r.fs, r.err, {})
        ELSE Res(r.fs, "", {Entry("ship", StagePath(wd), Abspath(wd, target))})

\* ship_to(target) of Builder.ship
ship_to(f, wd, target, rev) ==
    LET t == Abspath(wd, target)
        cleaned == IF IsDir(f, t) THEN RmtreeOp(f, t) ELSE Ok(f)
        r == copytree(cleaned.fs, wd, <<TMP>>, target, NoIgnore, FALSE, rev, 1)
    IN  IF cleaned.err # "" THEN Res(cleaned.fs, cleaned.err, {})
        ELSE IF r.err # "" THEN Res(r.fs, r.err, {})
        ELSE Res(r.fs, "", {Entry("ship", StagePath(wd), t)})

----------------------------------------------------------------------------
(* Scenarios: the filesystem a build starts in and the specification read *)

FsOf(entries) ==
    [p \in { e[1] : e \in entries } |-> (CHOOSE e \in entries : e[1] = p)[2]]

StartDir == <<>>
RootDir  == <<nR>>
SpecFile == <<nS>>

\* the source tree under the build root /r (directories a, b and c, where
\* a/b is a directory and c/b a file), an old destination /d, a regular
\* file /k
BaseEntries ==
    { <<<<>>, DirNode>>,
      <<<<nR>>, DirNode>>,
      <<<<nR, nA>>, DirNode>>,
      <<<<nR, nA, nX>>, FileNode(1)>>,
      <<<<nR, nA, nXO>>, FileNode(2)>>,
      <<<<nR, nA, nB>>, DirNode>>,
      <<<<nR, nA, nB, nX>>, FileNode(3)>>,
      <<<<nR, nA, nB, nXO>>, DirNode>>,
      <<<<nR, nA, nB, nXO, nX>>, FileNode(13)>>,
      <<<<nR, nB>>, DirNode>>,
      <<<<nR, nB, nX>>, FileNode(4)>>,
      <<<<nR, nB, nK>>, FileNode(5)>>,
      <<<<nR, nC>>, DirNode>>,
      <<<<nR, nC, nB>>, FileNode(14)>>,
      <<<<nR, nX>>, FileNode(6)>>,
      <<<<nR, nM>>, FileNode(7)>>,
      <<<<nD>>, DirNode>>,
      <<<<nD, nJ>>, FileNode(8)>>,
      <<<<nK>>, FileNode(9)>> }

SpecFileEntries == { <<SpecFile, FileNode(10)>> }

\* a stage left behind by an interrupted build
StaleEntries ==
    { <<<<nR, TMP>>, DirNode>>,
      <<<<nR, TMP, nJ>>, FileNode(11)>>,
      <<<<nR, TMP, nT>>, DirNode>>,
      <<<<nR, TMP, nT, nJ>>, FileNode(12)>> }

InitialFs(has_specfile, stale) ==
    FsOf(BaseEntries
            \cup (IF has_specfile THEN SpecFileEntries ELSE {})
            \cup (IF stale THEN StaleEntries ELSE {}))

\* include maps: sequences of <<source, relative target>>, sources distinct
RECURSIVE IncludeMaps(_, _)
IncludeMaps(pairs, n) ==
    IF n = 0 THEN { <<>> }
    ELSE LET shorter == IncludeMaps(pairs, n - 1)
             longest == { m \in shorter : Len(m) = n - 1 }
         IN  shorter
                \cup { Append(y[1], y[2]) :
                         y \in { z \in longest \X pairs :
                                   \A i \in DOMAIN z[1] : z[1][i][1] # z[2][1] } }

\* build.target lists: sequences of 1..n destinations
RECURSIVE TargetLists(_, _)
TargetLists(dests, n) ==
    IF n = 0 THEN {}
    ELSE { <<d>> : d \in dests }
            \cup { Append(l, d) : l \in TargetLists(dests, n - 1), d \in dests }

Doc(include, has_include, patterns, specific, target, is_list, qt) ==
    [loaded |-> TRUE, root |-> RootDir, target |-> target, target_is_list |-> is_list,
     exclude_keys |-> (IF patterns # <<>> THEN {"patterns"} ELSE {})
                         \cup (IF specific # <<>> THEN {"specific"} ELSE {}),
     patterns |-> patterns, specific |-> specific,
     qt |-> qt, forms |-> IF qt \in {"no_compiler", "full"} THEN << <<nM>> >> ELSE <<>>,
     has_include |-> has_include, include |-> include]

World(doc, uic_ok, has_specfile, stale) ==
    [specfile |-> SpecFile, doc |-> doc, uic_ok |-> uic_ok,
     fs0 |-> InitialFs(has_specfile, stale), end1 |-> <<>>, ok1 |-> FALSE]

\* destinations: /d exists and holds an old file, /e/u and /e do not exist,
\* /k is a regular file
DestD == <<Slash, nD>>
DestE == <<Slash, nE, nU>>
DestK == <<Slash, nK>>

\* Scenarios of the pipeline: the phases, their failures and the targets
PipelineIncludes ==
    { << <<<<nA>>, <<>>>> >>,
      << <<<<nA>>, <<nT>>>>, <<<<nX>>, <<nT>>>> >>,
      <<>> }

PipelineDocs ==
    { Doc(inc, TRUE, pat, <<>>, tg, TRUE, qt) :
        inc \in PipelineIncludes, pat \in { <<>>, << <<"*", "o">> >> },
        tg \in TargetLists({DestD, DestE, DestK}, MaxTargets),
        qt \in {"none", "no_forms", "no_compiler", "full"} }
    \cup { Doc(<<>>, FALSE, <<>>, <<>>, tg, TRUE, "none") :
             tg \in TargetLists({DestD, DestE, DestK}, MaxTargets) }
    \cup { Doc(inc, TRUE, <<>>, <<>>, DestD, FALSE, "none") : inc \in PipelineIncludes }

PipelineWorlds ==
    { World(doc, uic_ok, has_specfile, stale) :
        doc \in PipelineDocs, uic_ok \in BOOLEAN,
        has_specfile \in BOOLEAN, stale \in BOOLEAN }

\* Scenarios of the assembly: include maps and exclusion rules
TreeSources == { <<nA>>, <<nB>>, <<nC>>, <<nX>> }
TreeRels    == { <<>>, <<nT>>, <<nT, nU>> }
TreePairs   == (TreeSources \X TreeRels) \cup { <<<<nN>>, <<>>>> }

\* <<exclude.patterns, exclude.specific>>
TreeExcludes ==
    { << <<>>, <<>> >>,
      << << <<"*", "o">> >>, <<>> >>,
      << << <<"x">> >>, <<>> >>,
      << << <<"b">>, <<"?", "o">> >>, <<>> >>,
      << <<>>, << <<nA, nB>> >> >>,
      << <<>>, << <<nA, nX>> >> >>,
      << << <<"*", "o">> >>, << <<nA, nB, nX>> >> >>,
      << <<>>, << <<Dot, nA>> >> >>,
      << << <<"?">> >>, << <<nX>> >> >> }

TreeDocs ==
    { Doc(inc, TRUE, ex[1], ex[2], <<DestD>>, TRUE, "none") :
        inc \in IncludeMaps(TreePairs, MaxIncludes), ex \in TreeExcludes }

TreeWorlds == { World(doc, TRUE, TRUE, FALSE) : doc \in TreeDocs }

\* Scenarios of the stage's place: include sources that contain the stage
\* (the build root ".", its parent ".."), and relative targets that are
\* absolute paths or climb with ".."
NestPairs ==
    { <<<<Dot>>, <<>>>>,
      <<<<Dot>>, <<nT>>>>,
      <<<<DotDot>>, <<>>>>,
      <<<<nA>>, <<>>>>,
      <<<<nB>>, <<nT>>>>,
      <<<<nA>>, <<DotDot>>>>,
      <<<<nB>>, <<Slash, nD>>>>,
      <<<<nX>>, <<DotDot, DotDot, nD>>>> }

NestPatterns == { <<>>, << TMP >> }

NestDocs ==
    { Doc(inc, TRUE, pat, <<>>, <<DestD>>, TRUE, "none") :
        inc \in IncludeMaps(NestPairs, MaxIncludes), pat \in NestPatterns }

NestWorlds == { World(doc, TRUE, TRUE, FALSE) : doc \in NestDocs }

----------------------------------------------------------------------------
(* The state machine *)

InitWith(worlds) ==
    /\ world \in worlds
    /\ fs = world.fs0
    /\ cwd = StartDir
    /\ spec = NoSpec
    /\ copytree_excluder = NoExcluder
    /\ pc = "parse"
    /\ idx = 0
    /\ err = ""
    /\ failedAt = ""
    /\ runs = 1
    /\ log = {}

Init == InitWith(PipelineWorlds)
InitTree == InitWith(TreeWorlds)
InitNest == InitWith(NestWorlds)

\* an exception leaves build(): nothing else runs
Fail(phase, e) ==
    /\ pc' = "failed"
    /\ err' = e
    /\ failedAt' = phase

\* build(): self.parse_buildspec(specfile)
ParseBuildspec ==
    /\ pc = "parse"
    /\ LET r == parse_buildspec(fs, cwd, world.specfile, world.doc)
       IN  /\ fs' = r.fs
           /\ cwd' = r.cwd
           /\ spec' = r.spec
           /\ copytree_excluder' = r.copytree_excluder
           /\ IF r.err # "" THEN Fail("parse", r.err)
              ELSE pc' = "forms" /\ UNCHANGED <<err, failedAt>>
    /\ UNCHANGED <<idx, runs, log, world>>

\* build(): self.compile_qt_forms()
CompileQtForms ==
    /\ pc = "forms"
    /\ LET r == compile_qt_forms(fs, cwd, spec, world.uic_ok)
       IN  /\ fs' = r.fs
           /\ IF r.err # "" THEN Fail("forms", r.err)
              ELSE pc' = "assemble" /\ UNCHANGED <<err, failedAt>>
    /\ UNCHANGED <<cwd, spec, copytree_excluder, idx, runs, log, world>>

\* build(): self.assemble() up to its loop: the include map is looked up
AssembleStart ==
    /\ pc = "assemble"
    /\ IF ~spec.has_include THEN Fail("assemble", "Exception") /\ idx' = idx
       ELSE pc' = "include" /\ idx' = 1 /\ UNCHANGED <<err, failedAt>>
    /\ UNCHANGED <<fs, cwd, spec, copytree_excluder, runs, log, world>>

\* assemble(): one include entry
AssembleEntry ==
    /\ pc = "include"
    /\ idx <= Len(spec.include)
    /\ \E rev \in BOOLEAN :
         LET r == assemble_entry(fs, cwd, copytree_excluder, spec.include[idx][1],
                                 spec.include[idx][2], rev)
         IN  /\ fs' = r.fs
             /\ log' = log \cup r.log
             /\ IF r.err # "" THEN Fail("assemble", r.err) /\ idx' = idx
                ELSE idx' = idx + 1 /\ UNCHANGED <<pc, err, failedAt>>
    /\ UNCHANGED <<cwd, spec, copytree_excluder, runs, world>>

\* a build() that goes on to ship() without finishing assemble()'s loop
AssembleReturn_early ==
    /\ pc = "include"
    /\ pc' = "ship"
    /\ idx' = 1
    /\ UNCHANGED <<fs, cwd, spec, copytree_excluder, err, failedAt, runs, log, world>>

\* assemble() returns; build(): self.ship() up to its loop
AssembleReturn ==
    /\ pc = "include"
    /\ idx > Len(spec.include)
    /\ pc' = "ship"
    /\ idx' = 1
    /\ UNCHANGED <<fs, cwd, spec, copytree_excluder, err, failedAt, runs, log, world>>

\* ship(): one target
ShipTo ==
    /\ pc = "ship"
    /\ idx <= Len(Targets(spec))
    /\ \E rev \in BOOLEAN :
         LET r == ship_to(fs, cwd, Targets(spec)[idx], rev)
         IN  /\ fs' = r.fs
             /\ log' = log \cup r.log
             /\ IF r.err # "" THEN Fail("ship", r.err) /\ idx' = idx
                ELSE idx' = idx + 1 /\ UNCHANGED <<pc, err, failedAt>>
    /\ UNCHANGED <<cwd, spec, copytree_excluder, runs, world>>

\* ship() returns
ShipReturn ==
    /\ pc = "ship"
    /\ idx > Len(Targets(spec))
    /\ pc' = "clean"
    /\ idx' = 0
    /\ UNCHANGED <<fs, cwd, spec, copytree_excluder, err, failedAt, runs, log, world>>

\* build(): self.clean(), then "Done."
Clean ==
    /\ pc = "clean"
    /\ LET r == clean(fs, cwd)
       IN  /\ fs' = r.fs
           /\ IF r.err # "" THEN Fail("clean", r.err)
              ELSE pc' = "done" /\ UNCHANGED <<err, failedAt>>
    /\ UNCHANGED <<cwd, spec, copytree_excluder, idx, runs, log, world>>

\* Builder.clean() called once more by the caller of build() (a builder
\* with extra steps, see run()), right after the clean that ended build()
CleanAgain ==
    /\ pc = "done"
    /\ LET r == clean(fs, cwd)
       IN  /\ fs' = r.fs
           /\ err' = r.err
           /\ failedAt' = IF r.err # "" THEN "clean_again" ELSE ""
    /\ pc' = "recleaned"
    /\ UNCHANGED <<cwd, spec, copytree_excluder, idx, runs, log, world>>

\* run(): the script is started again, in a new process, on the same
\* specification file
Run ==
    /\ pc \in {"done", "recleaned", "failed"}
    /\ runs < MaxRuns
    /\ runs' = runs + 1
    /\ pc' = "parse"
    /\ cwd' = StartDir
    /\ spec' = NoSpec
    /\ copytree_excluder' = NoExcluder
    /\ idx' = 0
    /\ err' = ""
    /\ failedAt' = ""
    /\ log' = {}
    /\ world' = IF runs = 1
                THEN [world EXCEPT !.end1 = fs, !.ok1 = (pc \in {"done", "recleaned"})]
                ELSE world
    /\ UNCHANGED fs

Next ==
    \/ ParseBuildspec
    \/ CompileQtForms
    \/ AssembleStart
    \/ AssembleEntry
    \/ AssembleReturn
    \/ ShipTo
    \/ ShipReturn
    \/ Clean
    \/ CleanAgain
    \/ Run

Spec == Init /\ [][Next]_vars
SpecTree == InitTree /\ [][Next]_vars
SpecNest == InitNest /\ [][Next]_vars

----------------------------------------------------------------------------
(* Sanity of the model *)

\* every entry lies in a directory and carries a name os.listdir can order
FsOK ==
    /\ IsDir(fs, <<>>)
    /\ \A p \in DOMAIN fs :
         p # <<>> => /\ IsDir(fs, Parent(p))
                     /\ \E i \in DOMAIN NameOrder : NameOrder[i] = p[Len(p)]

----------------------------------------------------------------------------
(* The claims *)

Stage == StagePath(Abspath(StartDir, RootDir))

Built == pc \in {"done", "failed"}

\* C1: whenever build() has ended, by returning or by raising in a phase
\* that follows the creation of the stage, the stage directory __TMP__ no
\* longer exists in the build root.
C1_NoStageWhenBuildEnds ==
    (Built /\ failedAt # "parse") => ~Exists(fs, Stage)

\* a destination that a publication of its own can fill: it is not a
\* regular file
CanPublish(f, t) == ~IsFile(f, t)

\* C2: when publishing to one destination of build.target fails, every later
\* destination that can be published to holds the full staged tree.
C2_LaterTargetsStillPublished ==
    (pc = "failed" /\ failedAt = "ship") =>
        \A j \in (idx + 1)..Len(Targets(spec)) :
            LET t == Abspath(cwd, Targets(spec)[j])
            IN  CanPublish(fs, t) =>
                    IsDir(fs, t) /\ Subtree(fs, t) = Subtree(fs, Stage)

\* assemble() has returned without raising
Assembled == pc = "ship"

Visits == { e \in log : e.op = "visit" }

Matches(n) == \E p \in Range(copytree_excluder.patterns) : FnMatch(n, p)

\* C3: for every directory D listed in exclude.specific, no file and no
\* directory lying below D has been copied into the stage when assemble
\* returns, whether D was met as a child during the recursion or is itself
\* an include source.
C3_NothingBelowExcludedDirStaged ==
    Assembled =>
        \A D \in copytree_excluder.abs_ignore_list :
            IsDir(fs, D) =>
                \A e \in log :
                    e.op \in {"copy", "put", "visit"} => ~(IsPrefix(D, e.src) /\ e.src # D)

\* what else than copying s may have made the stage path d exist: another
\* copy onto or below d, or a file copied into the directory above d
MadeByOther(s, d) ==
    \E e \in log :
        /\ e.op \in {"copy", "put", "visit", "include"}
        /\ e.src # s
        /\ \/ IsPrefix(d, e.dst)
           \/ e.op = "copy" /\ d = Append(e.dst, e.dst[Len(e.dst)])

\* C4: in every directory copytree visits during assemble, at any depth, an
\* entry whose bare name matches a pattern of exclude.patterns is neither
\* copied nor recursed into; once assemble has returned it was passed over,
\* and it is in the stage only if something else put it there.
C4_PatternMatchesNotCopied ==
    \A v \in Visits :
        \A n \in Listdir(fs, v.src) :
            Matches(n) =>
                LET s == Append(v.src, n)
                    d == Append(v.dst, n)
                IN  /\ Entry("copy", s, d) \notin log
                    /\ Entry("visit", s, d) \notin log
                    /\ Assembled => /\ Entry("skip", s, d) \in log
                                    /\ Exists(fs, d) => MadeByOther(s, d)

\* a matching file was passed over in an include source, a matching
\* directory two levels below it, and neither is in the stage
C4_Witness ==
    /\ Assembled
    /\ \E e \in log : e.op = "skip" /\ Len(e.src) = 3 /\ IsFile(fs, e.src)
                        /\ Matches(e.src[3]) /\ ~Exists(fs, e.dst)
    /\ \E e \in log : e.op = "skip" /\ Len(e.src) = 4 /\ IsDir(fs, e.src)
                        /\ Matches(e.src[4]) /\ ~Exists(fs, e.dst)

\* C5: for a regular file P listed in exclude.specific, copytree passes over
\* the entry basename(P) in the directory dirname(P) and nowhere else: in
\* every other visited directory a file of that name that matches no pattern
\* (and is not listed itself) is copied.
C5_FileExclusionOnlyInItsDirectory ==
    Assembled =>
        \A P \in copytree_excluder.abs_ignore_list :
            IsFile(fs, P) =>
                LET base == P[Len(P)]
                IN  /\ \A e \in log : e.op = "copy" => e.src # P
                    /\ \A v \in Visits :
                         IF v.src = Parent(P)
                         THEN Entry("skip", P, Append(v.dst, base)) \in log
                         ELSE LET s == Append(v.src, base)
                                  d == Append(v.dst, base)
                              IN  (IsFile(fs, s) /\ ~Matches(base)
                                        /\ s \notin copytree_excluder.abs_ignore_list)
                                    => /\ Entry("copy", s, d) \in log
                                       /\ Entry("skip", s, d) \notin log
                                       /\ Exists(fs, d)

\* a listed file was passed over while files of its name were copied from a
\* directory above it and from a sibling of that directory
C5_Witness ==
    /\ Assembled
    /\ \E P \in copytree_excluder.abs_ignore_list :
         /\ IsFile(fs, P)
         /\ \E e \in log : e.op = "skip" /\ e.src = P
         /\ \E e \in log : e.op = "copy" /\ e.src = Append(Parent(Parent(P)), P[Len(P)])
         /\ \E e \in log : e.op = "copy" /\ e.src # P /\ e.src[Len(e.src)] = P[Len(P)]
                             /\ Len(e.src) = Len(P) - 1 /\ Parent(e.src) # Parent(Parent(P))

IncludeSrc(i) == Abspath(cwd, spec.include[i][1])
IncludeDst(i) == Abspath(cwd, Join(<<TMP>>, spec.include[i][2]))

\* C6: an include entry whose source does not exist never makes assemble
\* raise; it is passed over with a warning and every entry before it has
\* been taken into the stage, as is every entry after it once assemble has
\* returned, which leads on to ship.
C6_MissingSourceSkipped ==
    /\ (pc = "failed" /\ failedAt = "assemble" /\ spec.has_include)
            => Exists(fs, IncludeSrc(idx))
    /\ pc \in {"include", "ship"} =>
         \A i \in 1..Len(spec.include) :
            (pc = "ship" \/ i < idx) =>
                IF Exists(fs, IncludeSrc(i))
                THEN /\ Entry("include", IncludeSrc(i), IncludeDst(i)) \in log
                     /\ IsDir(fs, IncludeDst(i))
                     /\ IF IsDir(fs, IncludeSrc(i))
                        THEN Entry("visit", IncludeSrc(i), IncludeDst(i)) \in log
                        ELSE Exists(fs, Append(IncludeDst(i), Basename(spec.include[i][1])))
                ELSE Entry("missing", IncludeSrc(i), IncludeDst(i)) \in log

\* a missing source came first, the existing source after it was copied and
\* assemble returned
C6_Witness ==
    /\ Assembled
    /\ Len(spec.include) = 2
    /\ ~Exists(fs, IncludeSrc(1))
    /\ IsDir(fs, IncludeSrc(2))
    /\ \E e \in log : e.op = "copy" /\ IsPrefix(IncludeSrc(2), e.src)

TargetPaths == { Abspath(cwd, Targets(spec)[j]) : j \in 1..Len(Targets(spec)) }

\* C7: once ship has returned, every destination directory holds exactly the
\* staged tree, whatever it held before; and a second build of the same
\* specification on unchanged sources leaves every destination as the first
\* build left it.  (The destinations of a scenario lie outside the build
\* root and none inside another.)
C7_DestinationEqualsStage ==
    pc = "clean" =>
        \A t \in TargetPaths :
            /\ IsDir(fs, t)
            /\ Subtree(fs, t) = Subtree(fs, Stage)
            /\ (runs > 1 /\ world.ok1) => Subtree(fs, t) = Subtree(world.end1, t)

\* the second build has published over what the first one left in /d, a
\* directory that held a file of its own before the first build
C7_Witness ==
    /\ pc = "clean"
    /\ runs = 2
    /\ world.ok1
    /\ Abspath(cwd, DestD) \in TargetPaths
    /\ Exists(world.fs0, <<nD, nJ>>)
    /\ ~Exists(fs, <<nD, nJ>>)
    /\ Subtree(fs, Stage) # <<>>

\* the entries of the directory src that copytree takes, keyed by relative
\* path: those no component of which is ignored in its directory
TakenFrom(f, wd, ex, src) ==
    LET all == Subtree(f, src)
        taken == { r \in DOMAIN all :
                     \A k \in 1..Len(r) :
                        LET dir == src \o SubSeq(r, 1, k - 1)
                        IN  r[k] \notin get_ignored(ex, wd, <<Slash>> \o dir, Listdir(f, dir)) }
    IN  [r \in taken |-> all[r]]

\* the union of two trees, the second winning where both have an entry
Overlay(pre, new) ==
    [r \in DOMAIN pre \cup DOMAIN new |-> IF r \in DOMAIN new THEN new[r] ELSE pre[r]]

\* assemble is about to copy an include entry whose source is a directory
DirEntryNext ==
    /\ pc = "include"
    /\ idx <= Len(spec.include)
    /\ IsDir(fs, IncludeSrc(idx))

FileOnDir(pre, new) ==
    { r \in DOMAIN pre \cap DOMAIN new : pre[r] = DirNode /\ new[r] # DirNode }
DirOnFile(pre, new) ==
    { r \in DOMAIN pre \cap DOMAIN new : pre[r] # DirNode /\ new[r] = DirNode }

\* no regular file stands where the directory d or one above it should be
PathClear(f, d) == \A k \in 0..Len(d) : ~IsFile(f, SubSeq(d, 1, k))

C9_FileTargetCreatedAtAnyDepth ==
    [][(/\ pc = "include"
        /\ idx <= Len(spec.include)
        /\ IsFile(fs, IncludeSrc(idx))
        /\ ~Exists(fs, IncludeDst(idx)))
         => LET to == Append(IncludeDst(idx), Basename(spec.include[idx][1]))
            IN  /\ err' = ""
                /\ IsDir(fs', IncludeDst(idx))
                /\ IsFile(fs', to)
                /\ fs'[to] = fs[IncludeSrc(idx)]]_vars

\* C10: a stage left over in the build root is removed by parse_buildspec
\* and a new one made: from the return of parse_buildspec to the first
\* include entry the stage is an empty directory, and no file of the stale
\* stage is ever found outside the stage.
C10_StaleStageReplaced ==
    /\ (pc \in {"forms", "assemble"} \/ (pc = "include" /\ idx = 1))
          => (IsDir(fs, Stage) /\ Subtree(fs, Stage) = <<>>)
    /\ \A p \in DOMAIN fs :
          ~IsPrefix(Stage, p) => \A e \in StaleEntries : fs[p] = DirNode \/ fs[p] # e[2]

\* the build started with a stale stage holding files and is about to
\* assemble into an empty one
C10_Witness ==
    /\ pc = "assemble"
    /\ \A e \in StaleEntries : Exists(world.fs0, e[1])
    /\ IsDir(fs, Stage)
    /\ Listdir(fs, Stage) = {}

----------------------------------------------------------------------------
\* C11: stage removal is idempotent: Builder.clean called when the stage
\* __TMP__ is already absent (a second clean in a row) raises no error and
\* leaves the filesystem unchanged.
C11_CleanOfAbsentStageIsNoOp ==
    [][(CleanAgain /\ ~Exists(fs, StagePath(cwd))) => (err' = "" /\ fs' = fs)]_vars

----------------------------------------------------------------------------
\* the specification read configures no includes: no include key, or an
\* empty mapping
NoIncludes(doc) == ~doc.has_include \/ doc.include = <<>>

\* the tree at and below path t is the same in filesystems f and g
SameAt(f, g, t) ==
    \A p \in DOMAIN f \cup DOMAIN g :
        IsPrefix(t, p) => (p \in DOMAIN f /\ p \in DOMAIN g /\ f[p] = g[p])

\* the destinations named by the specification file
DocTargets ==
    { Abspath(Abspath(StartDir, world.doc.root), Targets(world.doc)[j]) :
        j \in 1..Len(Targets(world.doc)) }

\* C12: when the specification configures no includes (the include key is
\* absent or its mapping is empty), build fails before publishing: it does
\* not complete, and no destination directory is removed or written.
C12_NoIncludesNothingPublished ==
    (runs = 1 /\ NoIncludes(world.doc)) =>
        /\ pc \notin {"done", "recleaned"}
        /\ \A t \in DocTargets : SameAt(fs, world.fs0, t)

----------------------------------------------------------------------------
\* C13: the stage is never nested inside itself: after assemble, whatever
\* the include map (also one whose source is the build root or another
\* ancestor of __TMP__), no path below the stage leads through a copy of the
\* stage directory.
C13_StageNotNestedInItself ==
    Assembled =>
        \A p \in DOMAIN fs :
            IsPrefix(Stage, p) => \A i \in (Len(Stage) + 1)..Len(p) : p[i] # TMP

----------------------------------------------------------------------------
\* the phases of build() in the order of its statements
Rank(p) ==
    CASE p = "parse" -> 0
      [] p = "forms" -> 1
      [] p \in {"assemble", "include"} -> 2
      [] p = "ship" -> 3
      [] p = "clean" -> 4
      [] p = "done" -> 5
      [] OTHER -> 6

\* include entry i has been through assemble's loop
Processed(i) ==
    \E e \in log : e.op \in {"include", "missing"} /\ e.src = IncludeSrc(i)

\* destination j of build.target has been published
Shipped(j) ==
    \E e \in log : e.op = "ship" /\ e.dst = Abspath(cwd, Targets(spec)[j])

\* C14: build runs its phases in the order stage creation, form
\* compilation, assembly, publishing, cleanup, each at most once and never
\* going back; a destination is written only once every include entry has
\* been processed, the destinations are published one at a time in the order
\* given, and the stage is removed only after the last one was published.
C14_PhasesInOrder ==
    [][/\ (runs' = runs) =>
             /\ Rank(pc') >= Rank(pc)
             /\ (pc' = pc) => (pc \in {"include", "ship"} /\ idx' = idx + 1)
       /\ \A t \in TargetPaths :
             ~SameAt(fs, fs', t) =>
                 /\ pc = "ship"
                 /\ \A i \in DOMAIN spec.include : Processed(i)
                 /\ t = Abspath(cwd, Targets(spec)[idx])
                 /\ \A j \in 1..(idx - 1) : Shipped(j)
                 /\ \A u \in TargetPaths \ {t} : SameAt(fs, fs', u)
       /\ (Exists(fs, Stage) /\ ~Exists(fs', Stage)) =>
             /\ pc = "clean"
             /\ \A j \in DOMAIN Targets(spec) : Shipped(j)]_vars

\* a build of two include entries and two distinct destinations has ended
C14_Witness ==
    /\ pc = "done"
    /\ Len(spec.include) = 2
    /\ Len(Targets(spec)) = 2
    /\ Targets(spec)[1] # Targets(spec)[2]
    /\ \A j \in 1..2 : IsDir(fs, Abspath(cwd, Targets(spec)[j]))
    /\ Subtree(fs, <<nD>>) # <<>>
    /\ ~Exists(fs, Stage)

----------------------------------------------------------------------------
\* C15: when the specification file path names no existing file,
\* parse_buildspec fails before any change of the filesystem: no stage is
\* created or removed, the working directory stays, no destination is
\* touched.
C15_MissingSpecfileChangesNothing ==
    [][(pc = "parse" /\ ~IsFile(fs, Abspath(cwd, world.specfile))) =>
           /\ pc' = "failed"
           /\ failedAt' = "parse"
           /\ err' = "FileNotFoundError"
           /\ fs' = fs
           /\ cwd' = cwd
           /\ spec' = NoSpec]_vars

\* the build of a missing specification file has failed in a build root
\* that holds a stale stage, which is still there
C15_Witness ==
    /\ pc = "failed"
    /\ failedAt = "parse"
    /\ ~Exists(fs, Abspath(StartDir, world.specfile))
    /\ cwd = StartDir
    /\ fs = world.fs0
    /\ Exists(fs, Stage)
    /\ Exists(fs, Stage \o <<nT, nJ>>)

----------------------------------------------------------------------------
\* C16: assemble terminates for every finite source tree and include map:
\* copytree makes finitely many recursive calls, also when an include source
\* contains the stage (the build root) and the relative target is a
\* subdirectory of the stage.  In the model a copytree that never runs out
\* of directories to descend into is one that reaches the nesting MaxDepth.
C16_CopytreeRecursionEnds ==
    ~(pc = "failed" /\ failedAt = "assemble" /\ err = "RecursionError")

----------------------------------------------------------------------------
\* C17: assemble only writes under the stage: whatever the include map and
\* the exclusions, a step of assemble leaves every file and directory
\* outside __TMP__ (the source trees, the destinations) as it was.
C17_AssembleWritesOnlyUnderStage ==
    [][pc = "include" =>
          \A p \in DOMAIN fs \cup DOMAIN fs' :
              ~IsPrefix(Stage, p) =>
                  (p \in DOMAIN fs /\ p \in DOMAIN fs' /\ fs'[p] = fs[p])]_vars

----------------------------------------------------------------------------
\* the exclusion rules name the path s: its bare name matches a pattern, or
\* the path is listed in exclude.specific
Excluded(s) ==
    s # <<>> /\ (Matches(s[Len(s)]) \/ s \in copytree_excluder.abs_ignore_list)

====
